---- MODULE Spec2Model ----
(***************************************************************************)
(* Session synchronisation engine of the collaborative whiteboard.         *)
(*                                                                         *)
(* Each client is one mounted Whiteboard component (Whiteboard.js) with    *)
(* its fabric canvas (the local object store), its React state (userId,    *)
(* activeUsers, isConnected) and one WebSocketManager (SessionManager.js,  *)
(* the part that is src/utils/websocket.js).  The session server is not    *)
(* part of the sources; it is modelled as the relay the specification      *)
(* describes: it applies client mutations in arrival order and broadcasts  *)
(* each one to every connection of the session, tagged with its            *)
(* originator.                                                             *)
(***************************************************************************)
EXTENDS Integers, Sequences, FiniteSets, TLC

\* ------------------------------------------------------------------ bounds

\* The browser tabs that joined the session.
Clients == {"A", "B"}

\* Local mutations (add, modify, text edit, delete, clear) originated in a run.
MaxLocalOps == 2

\* Closures of a transport in a run (drops and failed connects).
MaxCloses == 1

\* ----------------------------------------------------- program constants

\* App.handleSessionJoin is always called with userId null.
NoUser == 0

maxReconnectAttempts == 3

\* WebSocket close codes: 1006 stands for every code onclose retries after,
\* 1008 and 1003 are the two it does not retry after.
AbnormalClosure == 1006
PolicyViolation == 1008
UnsupportedData == 1003

\* The close codes the transport reports in a run.
CloseCodes == {AbnormalClosure, PolicyViolation}

\* Attribute values (positions, texts); 0 is the value addShape gives.
Vals == {0, 1}

\* ------------------------------------------------------------- variables

VARIABLES
    timeoutPending, \* [c]: the 100 ms initialisation timeout has not fired yet
    hasCanvas,      \* [c]: fabricRef.current is a canvas
    canvas,         \* [c]: canvas.getObjects(), the local object store
    userId,         \* [c]: React state userId
    handlerUserId,  \* [c]: userId closed over by the handler given to the manager
    activeUsers,    \* [c]: React state activeUsers
    isConnected,    \* [c]: React state isConnected
    hasManager,     \* [c]: wsManagerRef.current is a manager
    ws,             \* [c]: readyState of manager.ws ("NONE" when ws is null)
    reconnectAttempts,
    isIntentionallyClosed,
    timer,          \* [c]: the reconnect timeouts scheduled and not yet fired
    toClient,       \* [c]: envelopes sent to c, not yet dispatched
    srvObjects,     \* server: object id -> object
    srvUser,        \* server: [c] -> user id of c's connection, NoUser if none
    nextUser,       \* server: next user id to assign
    nextObj,        \* the next fresh object id (Date.now() and Math.random())
    localOps,       \* local mutations originated so far
    closes,         \* transport closures so far
    ev,             \* the last step taken: what was handled and the store before
    \* The transports and the traffic of a manager, followed by MgrSpec:
    detached,       \* [c]: live transports the manager no longer refers to
    created,        \* [c]: transports the manager has created (new WebSocket)
    byTimer,        \* [c]: this.ws was created by a reconnect timeout, not opened yet
    failed,         \* [c]: reconnections in a row that closed without opening
    phase,          \* [c]: how the manager's last transport ended, "none" if it has not
    closures,       \* [c]: close events of the manager's transports
    disconnectCalled, \* [c]: the caller has called disconnect()
    executed,       \* [c]: reconnect timeouts that went on to connect()
    transmitted,    \* [c]: the envelopes handed to ws.send, in order
    refused,        \* [c]: the envelopes sendMessage returned false for
    calls           \* connect() and sendMessage() calls made by the callers

vars == <<timeoutPending, hasCanvas, canvas, userId, handlerUserId, activeUsers,
          isConnected, hasManager, ws, reconnectAttempts, isIntentionallyClosed,
          timer, toClient, srvObjects, srvUser, nextUser, nextObj,
          localOps, closes, ev, detached, created, byTimer, failed, phase,
          closures, disconnectCalled, executed, transmitted, refused, calls>>

uiVars == <<userId, activeUsers, isConnected>>
mgrVars == <<hasManager, ws, reconnectAttempts, isIntentionallyClosed, timer>>
srvVars == <<srvObjects, srvUser, nextUser>>
logVars == <<detached, created, byTimer, failed, phase, closures,
             disconnectCalled, executed, transmitted, refused, calls>>

\* --------------------------------------------------------------- helpers

Range(s) == {s[i] : i \in DOMAIN s}

Min(S) == CHOOSE m \in S : \A n \in S : m <= n

RECURSIVE SortedSeq(_)
SortedSeq(S) == IF S = {} THEN <<>>
                ELSE <<Min(S)>> \o SortedSeq(S \ {Min(S)})

\* The store as a bag: how many times each object occurs, order forgotten.
BagOf(s) == [o \in Range(s) |-> Cardinality({i \in DOMAIN s : s[i] = o})]

CountId(objs, id) == Cardinality({i \in DOMAIN objs : objs[i].id = id})

NoMsg == [type |-> "none"]

Event(op, c, msg, before, self) ==
    [op |-> op, c |-> c, msg |-> msg, before |-> before, self |-> self]

\* The value of ev after a step that neither handled nor originated a message.
Idle == Event("none", "A", NoMsg, <<>>, NoUser)

\* ------------------------------------------- the object store (fabric canvas)

\* fabric's obj.set(updates): every key of updates is written on the object,
\* every other property of the object is kept.
FabricSet(obj, updates) ==
    [k \in DOMAIN obj \cup DOMAIN updates |->
        IF k \in DOMAIN updates THEN updates[k] ELSE obj[k]]

\* shape.toObject(): the attribute mapping that travels as object.data.
toObject(shape) ==
    IF shape.type = "rect"
    THEN [left |-> shape.left, width |-> shape.width]
    ELSE [left |-> shape.left, text |-> shape.text]

\* The types addObjectToCanvas has a branch for.
FabricKinds == {"path", "rect", "circle", "text", "textbox"}

\* addObjectToCanvas(objData) throws: a branch reads objData.data.left of an
\* object without data.
ObjectThrows(objData) ==
    objData.type \in FabricKinds /\ "data" \notin DOMAIN objData

\* A faulty chain with a last branch that builds a plain object for any
\* other type.
FabricObject_AnyKind(objData) ==
    IF objData.type = "rect"
    THEN <<[id |-> objData.id, type |-> "rect",
            left |-> objData.data.left, width |-> objData.data.width]>>
    ELSE IF objData.type = "text" \/ objData.type = "textbox"
    THEN <<[id |-> objData.id, type |-> "textbox",
            left |-> objData.data.left, text |-> objData.data.text]>>
    ELSE <<[id |-> objData.id, type |-> objData.type, left |-> objData.data.left]>>

\* The fabric object addObjectToCanvas builds from a wire object: the chain
\* of if / else if on objData.type; no branch matches an unknown type and
\* fabricObject stays undefined (the empty sequence here).
FabricObject(objData) ==
    IF objData.type = "path"
    THEN <<[id |-> objData.id, type |-> "path",
            left |-> objData.data.left, path |-> objData.data.path]>>
    ELSE IF objData.type = "rect"
    THEN <<[id |-> objData.id, type |-> "rect",
            left |-> objData.data.left, width |-> objData.data.width]>>
    ELSE IF objData.type = "circle"
    THEN <<[id |-> objData.id, type |-> "circle",
            left |-> objData.data.left, radius |-> objData.data.radius]>>
    ELSE IF objData.type = "text" \/ objData.type = "textbox"
    THEN <<[id |-> objData.id, type |-> "textbox",
            left |-> objData.data.left, text |-> objData.data.text]>>
    ELSE <<>>

\* addObjectToCanvas: canvas.add(fabricObject) appends to the object list.
addObjectToCanvas(objs, objData) == objs \o FabricObject(objData)

\* objects.find(o => o.id === objectId): the first match, 0 when none.
FindIndex(objs, objectId) ==
    IF \E i \in DOMAIN objs : objs[i].id = objectId
    THEN Min({i \in DOMAIN objs : objs[i].id = objectId})
    ELSE 0

\* canvas.remove(obj) for the object at position i.
RemoveAt(objs, i) ==
    [k \in 1..(Len(objs) - 1) |-> IF k < i THEN objs[k] ELSE objs[k + 1]]

\* A faulty update that rebuilds the object from updates: the properties
\* updates does not name fall back to their initial value.
updateObjectOnCanvas_Overwrite(objs, objectId, updates) ==
    LET i == FindIndex(objs, objectId) IN
    IF i = 0 THEN objs
    ELSE [objs EXCEPT ![i] =
            [k \in DOMAIN @ \cup DOMAIN updates |->
                IF k \in DOMAIN updates THEN updates[k]
                ELSE IF k \in {"id", "type"} THEN @[k] ELSE 0]]

\* updateObjectOnCanvas: if (obj) obj.set(updates).
updateObjectOnCanvas(objs, objectId, updates) ==
    LET i == FindIndex(objs, objectId) IN
    IF i = 0 THEN objs
    ELSE [objs EXCEPT ![i] = FabricSet(objs[i], updates)]

\* A faulty remove without the `if (obj)` test, splicing at the index found:
\* index -1 takes the last object away.
removeObjectFromCanvas_Splice(objs, objectId) ==
    LET i == FindIndex(objs, objectId) IN
    IF i = 0 THEN SubSeq(objs, 1, Len(objs) - 1) ELSE RemoveAt(objs, i)

\* removeObjectFromCanvas: if (obj) canvas.remove(obj).
removeObjectFromCanvas(objs, objectId) ==
    LET i == FindIndex(objs, objectId) IN
    IF i = 0 THEN objs ELSE RemoveAt(objs, i)

\* A faulty loop that skips an object that throws and goes on.
RECURSIVE LoadObjects_SkipInvalid(_, _)
LoadObjects_SkipInvalid(objs, list) ==
    IF list = <<>> THEN objs
    ELSE LoadObjects_SkipInvalid(
            IF ObjectThrows(Head(list)) THEN objs
            ELSE addObjectToCanvas(objs, Head(list)), Tail(list))

\* data.objects.forEach(obj => addObjectToCanvas(obj)): the objects are added
\* in order; the exception of one ends the loop.
RECURSIVE LoadObjects(_, _)
LoadObjects(objs, list) ==
    IF list = <<>> \/ ObjectThrows(Head(list)) THEN objs
    ELSE LoadObjects(addObjectToCanvas(objs, Head(list)), Tail(list))

\* ------------------------------------------------ the inbound message handler

Mutations == {"object_added", "object_updated", "object_deleted", "canvas_cleared"}

\* A faulty reading of the list without the `|| []`: an envelope without
\* list leaves the state undefined instead of empty.
ActiveUsersOf_NoDefault(data) ==
    IF "active_users" \in DOMAIN data THEN data.active_users ELSE {-1}

\* What reading a property the envelope does not have gives (undefined, which
\* is neither null nor a user id).
Undefined == -1

\* data.user_id.
UserIdOf(data) == IF "user_id" \in DOMAIN data THEN data.user_id ELSE Undefined

\* data.active_users || [].
ActiveUsersOf(data) ==
    IF "active_users" \in DOMAIN data THEN data.active_users ELSE {}

\* The objects the session_state case loads: those of data.objects when the
\* envelope has the list.
ObjectsOf(data) == IF "objects" \in DOMAIN data THEN data.objects ELSE <<>>

\* JSON.parse(event.data) returns an envelope: the frame's text is JSON.
Parses(frame) == "text" \notin DOMAIN frame

\* The test `data.user_id !== userId` of the four mutation cases; uid is the
\* userId the handler closed over.
IsRemote(data, uid) == UserIdOf(data) # uid

\* handleWebSocketMessage(data) throws: the object_added case reads
\* data.object.type of an envelope without object, or addObjectToCanvas
\* throws for the object or for one of the snapshot.
Throws(data, uid) ==
    \/ /\ data.type = "object_added"
       /\ IsRemote(data, uid)
       /\ ("object" \notin DOMAIN data \/ ObjectThrows(data.object))
    \/ /\ data.type = "session_state"
       /\ \E k \in DOMAIN ObjectsOf(data) : ObjectThrows(ObjectsOf(data)[k])

\* A faulty handler whose session_state case forgets canvas.clear().
HandledCanvas_NoClear(objs, data, uid) ==
    CASE data.type = "session_state" -> LoadObjects(objs, ObjectsOf(data))
      [] data.type = "object_added" ->
            IF IsRemote(data, uid) /\ ~Throws(data, uid)
            THEN addObjectToCanvas(objs, data.object) ELSE objs
      [] data.type = "object_updated" ->
            IF IsRemote(data, uid)
            THEN updateObjectOnCanvas(objs, data.object_id, data.updates) ELSE objs
      [] data.type = "object_deleted" ->
            IF IsRemote(data, uid)
            THEN removeObjectFromCanvas(objs, data.object_id) ELSE objs
      [] data.type = "canvas_cleared" ->
            IF IsRemote(data, uid) THEN <<>> ELSE objs
      [] OTHER -> objs

\* A faulty handler whose default case clears the canvas.
HandledCanvas_DefaultClears(objs, data, uid) ==
    IF data.type \in Mutations \cup {"session_state", "user_joined", "user_left"}
    THEN HandledCanvas_NoClear(
            IF data.type = "session_state" THEN <<>> ELSE objs, data, uid)
    ELSE <<>>

\* A faulty handler that loads a snapshot into an empty store only.
HandledCanvas_FirstOnly(objs, data, uid) ==
    IF data.type = "session_state" /\ objs # <<>> THEN objs
    ELSE HandledCanvas_NoClear(objs, data, uid)

\* The canvas after handleWebSocketMessage(data) ran on a client whose
\* handler closed over uid (the switch on data.type).
HandledCanvas(objs, data, uid) ==
    CASE data.type = "session_state" -> LoadObjects(<<>>, ObjectsOf(data))
      [] data.type = "object_added" ->
            IF IsRemote(data, uid) /\ ~Throws(data, uid)
            THEN addObjectToCanvas(objs, data.object) ELSE objs
      [] data.type = "object_updated" ->
            IF IsRemote(data, uid)
            THEN updateObjectOnCanvas(objs, data.object_id, data.updates) ELSE objs
      [] data.type = "object_deleted" ->
            IF IsRemote(data, uid)
            THEN removeObjectFromCanvas(objs, data.object_id) ELSE objs
      [] data.type = "canvas_cleared" ->
            IF IsRemote(data, uid) THEN <<>> ELSE objs
      [] OTHER -> objs

\* A faulty handler without the test of the canvas.
HandlerRuns_NoCanvasTest(c) == TRUE

\* handleWebSocketMessage goes past `if (!canvas) return`: fabricRef.current
\* is a canvas.
HandlerRuns(c) == hasCanvas[c]

\* A faulty catch block that closes the transport.
CatchError_Close(st) == "CLOSED"

\* The readyState of the transport after the catch block of ws.onmessage ran
\* on a transport in readyState st: the error is logged and nothing else.
CatchError(st) == st

\* How ws.onmessage ended: with the exception of JSON.parse or of the handler
\* caught, with the envelope handled, or with the handler returning at once
\* for want of a canvas.
Outcome(threw, handled) ==
    IF threw THEN "dropped" ELSE IF handled THEN "recv" ELSE "ignored"

\* ws.onmessage -> this.onMessage(data) -> handleWebSocketMessage(data) for the
\* next frame in arrival order, inside the try block.  The handler is the one
\* handed to connectWebSocket by the initialisation timeout; it returns at
\* once when there is no canvas.
OnMessage(c) ==
    /\ hasManager[c]
    /\ ws[c] = "OPEN"
    /\ toClient[c] # <<>>
    /\ LET data == Head(toClient[c])
           handled == Parses(data) /\ HandlerRuns(c)
           threw == ~Parses(data) \/ (handled /\ Throws(data, handlerUserId[c]))
       IN
        /\ toClient' = [toClient EXCEPT ![c] = Tail(@)]
        /\ IF handled
           THEN /\ canvas' = [canvas EXCEPT
                        ![c] = HandledCanvas(@, data, handlerUserId[c])]
                /\ userId' = [userId EXCEPT
                        ![c] = IF data.type = "session_state" THEN UserIdOf(data) ELSE @]
                /\ activeUsers' = [activeUsers EXCEPT
                        ![c] = IF data.type \in {"session_state", "user_joined", "user_left"}
                               THEN ActiveUsersOf(data) ELSE @]
                /\ isConnected' = [isConnected EXCEPT
                        ![c] = IF data.type = "session_state" THEN TRUE ELSE @]
           ELSE UNCHANGED <<canvas, userId, activeUsers, isConnected>>
        /\ ws' = [ws EXCEPT ![c] = IF threw THEN CatchError(@) ELSE @]
        /\ ev' = Event(Outcome(threw, handled), c, data, canvas[c], userId[c])
    /\ UNCHANGED <<timeoutPending, hasCanvas, handlerUserId, hasManager,
                   reconnectAttempts, isIntentionallyClosed, timer,
                   srvVars, nextObj, localOps, closes, logVars>>

\* --------------------------------------------------- the connection manager

\* A faulty sendMessage that takes any transport for a usable one.
SendOk_AnyTransport(c) == hasManager[c] /\ ws[c] # "NONE"

\* WebSocketManager.sendMessage (through the exported sendMessage and the
\* component's sendWebSocketMessage): true exactly when there is a manager
\* whose transport is open.
SendOk(c) == hasManager[c] /\ ws[c] = "OPEN"

\* A faulty onopen that keeps the count of attempts.
onopen_KeepAttempts(attempts) == attempts

\* reconnectAttempts after ws.onopen ran with the given count: reset to 0.
onopen(attempts) == 0

\* A faulty connect() without the test of the existing transport.
connect_Always(st) == "CONNECTING"

\* WebSocketManager.connect() on the readyState st of this.ws: an existing
\* transport that is connecting or open is returned, else a new one is made.
connect(st) == IF st \in {"CONNECTING", "OPEN"} THEN st ELSE "CONNECTING"

\* What initCanvas can find in canvasRef.current: the canvas element of the
\* mounted component; after the cleanup the component is unmounted (null) or
\* has changed session (the element).
CanvasRef(c) == IF phase[c] = "left" THEN {TRUE, FALSE} ELSE {TRUE}

\* The setTimeout callback of the main initialisation effect: initCanvas(),
\* then connectWebSocket(sessionId, handleWebSocketMessage), which constructs
\* the manager and calls connect().  The handler passed is the one of the
\* render that ran the effect, so it closes over that render's userId.
InitTimeout(c) ==
    /\ timeoutPending[c]
    /\ timeoutPending' = [timeoutPending EXCEPT ![c] = FALSE]
    /\ \E ready \in CanvasRef(c) : hasCanvas' = [hasCanvas EXCEPT ![c] = ready]
    /\ canvas' = [canvas EXCEPT ![c] = <<>>]
    /\ handlerUserId' = [handlerUserId EXCEPT ![c] = userId[c]]
    /\ hasManager' = [hasManager EXCEPT ![c] = TRUE]
    /\ ws' = [ws EXCEPT ![c] = connect("NONE")]
    /\ reconnectAttempts' = [reconnectAttempts EXCEPT ![c] = 0]
    /\ isIntentionallyClosed' = [isIntentionallyClosed EXCEPT ![c] = FALSE]
    /\ ev' = Idle
    /\ UNCHANGED <<uiVars, timer, toClient, srvVars, nextObj,
                   localOps, closes, logVars>>

\* ---------------------------------------------------------- the session server

Connected == {d \in Clients : srvUser[d] # NoUser}

\* The queues to the clients after the server sent msg to every client of To.
Broadcast(queues, To, msg) ==
    [d \in Clients |-> IF d \in To THEN Append(queues[d], msg) ELSE queues[d]]

\* The snapshot list of a server store.
ObjectList(store) ==
    LET ids == SortedSeq(DOMAIN store) IN [k \in DOMAIN ids |-> store[ids[k]]]

\* The server store after a client mutation, keyed by object id.
SrvApply(store, m) ==
    CASE m.type = "add_object" ->
            [i \in DOMAIN store \cup {m.object.id} |->
                IF i = m.object.id THEN m.object ELSE store[i]]
      [] m.type = "update_object" ->
            IF m.object_id \in DOMAIN store
            THEN [store EXCEPT ![m.object_id].data = FabricSet(@, m.updates)]
            ELSE store
      [] m.type = "delete_object" ->
            [i \in DOMAIN store \ {m.object_id} |-> store[i]]
      [] m.type = "clear_canvas" -> [i \in {} |-> NoMsg]
      [] OTHER -> store

\* The envelope the server broadcasts for mutation m of user uid.
SrvEcho(m, uid) ==
    CASE m.type = "add_object" ->
            [type |-> "object_added", user_id |-> uid, object |-> m.object]
      [] m.type = "update_object" ->
            [type |-> "object_updated", user_id |-> uid,
             object_id |-> m.object_id, updates |-> m.updates]
      [] m.type = "delete_object" ->
            [type |-> "object_deleted", user_id |-> uid, object_id |-> m.object_id]
      [] OTHER -> [type |-> "canvas_cleared", user_id |-> uid]

\* The server receives envelope m on c's connection: it applies it to its
\* store and broadcasts it to every connection of the session, c's included.
SrvReceive(c, m) ==
    /\ srvObjects' = SrvApply(srvObjects, m)
    /\ toClient' = Broadcast(toClient, Connected, SrvEcho(m, srvUser[c]))

\* ws.onopen (this.reconnectAttempts = 0) together with the server's side of
\* the handshake: the connection gets a fresh user id, the full session_state
\* goes to it and user_joined to the others.
WsOpen(c) ==
    /\ hasManager[c]
    /\ ws[c] = "CONNECTING"
    /\ ws' = [ws EXCEPT ![c] = "OPEN"]
    /\ reconnectAttempts' = [reconnectAttempts EXCEPT ![c] = onopen(@)]
    /\ srvUser' = [srvUser EXCEPT ![c] = nextUser]
    /\ nextUser' = nextUser + 1
    /\ LET users == {srvUser'[d] : d \in Clients} \ {NoUser} IN
       toClient' = [Broadcast(toClient, Connected \ {c},
                        [type |-> "user_joined", active_users |-> users])
                    EXCEPT ![c] = <<[type |-> "session_state",
                                     user_id |-> nextUser,
                                     active_users |-> users,
                                     objects |-> ObjectList(srvObjects)]>>]
    /\ ev' = Idle
    /\ UNCHANGED <<timeoutPending, hasCanvas, canvas, handlerUserId, uiVars,
                   hasManager, isIntentionallyClosed, timer,
                   srvObjects, nextObj, localOps, closes, logVars>>

\* A faulty test that gives up one attempt early.
Reschedules_OneShort(c, code) ==
    /\ ~isIntentionallyClosed[c]
    /\ ~(reconnectAttempts[c] + 1 >= maxReconnectAttempts)
    /\ ~(code = PolicyViolation \/ code = UnsupportedData)

\* A faulty test that allows one attempt too many.
Reschedules_OffByOne(c, code) ==
    /\ ~isIntentionallyClosed[c]
    /\ ~(reconnectAttempts[c] > maxReconnectAttempts)
    /\ ~(code = PolicyViolation \/ code = UnsupportedData)

\* Whether ws.onclose schedules a reconnect: not after an intentional close,
\* not with the attempts used up, not for close codes 1008 and 1003.
Reschedules(c, code) ==
    /\ ~isIntentionallyClosed[c]
    /\ ~(reconnectAttempts[c] >= maxReconnectAttempts)
    /\ ~(code = PolicyViolation \/ code = UnsupportedData)

\* The transport of c closes without disconnect() having closed it (a drop,
\* a failed connect, or the server closing with the given code): what was in
\* flight on it is lost, the server tells the others, and ws.onclose runs.
WsClose(c, code) ==
    /\ hasManager[c]
    /\ ws[c] \in {"CONNECTING", "OPEN"}
    /\ closes < MaxCloses
    /\ closes' = closes + 1
    /\ ws' = [ws EXCEPT ![c] = "CLOSED"]
    /\ srvUser' = [srvUser EXCEPT ![c] = NoUser]
    /\ LET users == {srvUser'[d] : d \in Clients} \ {NoUser} IN
       toClient' = [IF srvUser[c] # NoUser
                    THEN Broadcast(toClient, Connected \ {c},
                            [type |-> "user_left", active_users |-> users])
                    ELSE toClient
                    EXCEPT ![c] = <<>>]
    /\ IF Reschedules(c, code)
       THEN /\ reconnectAttempts' = [reconnectAttempts EXCEPT ![c] = @ + 1]
            /\ timer' = [timer EXCEPT ![c] = @ + 1]
       ELSE UNCHANGED <<reconnectAttempts, timer>>
    /\ ev' = Idle
    /\ UNCHANGED <<timeoutPending, hasCanvas, canvas, handlerUserId, uiVars,
                   hasManager, isIntentionallyClosed, srvObjects, nextUser,
                   nextObj, localOps, logVars>>

\* A faulty test of the reconnect timeout that forgets the intentional close.
TimerConnects_NoIntent(c) == reconnectAttempts[c] <= maxReconnectAttempts

\* The test of the reconnect timeout's callback.
TimerConnects(c) ==
    ~isIntentionallyClosed[c] /\ reconnectAttempts[c] <= maxReconnectAttempts

\* The reconnect timeout fires: connect() unless closed intentionally or the
\* attempts exceed the maximum.
ReconnectTimer(c) ==
    /\ timer[c] > 0
    /\ timer' = [timer EXCEPT ![c] = @ - 1]
    /\ ws' = [ws EXCEPT ![c] = IF TimerConnects(c) THEN connect(@) ELSE @]
    /\ ev' = Idle
    /\ UNCHANGED <<timeoutPending, hasCanvas, canvas, handlerUserId, uiVars,
                   hasManager, reconnectAttempts, isIntentionallyClosed,
                   toClient, srvVars, nextObj, localOps, closes, logVars>>

\* A faulty check that takes any transport the manager refers to for an
\* open one.
PolledStatus_AnyTransport(c) == hasManager[c] /\ ws[c] # "NONE"

\* What checkConnection finds: there is a manager, it refers to a transport
\* and the transport's readyState is OPEN.
PolledStatus(c) == hasManager[c] /\ ws[c] # "NONE" /\ ws[c] = "OPEN"

\* checkConnection of the 2 s polling interval: setIsConnected of what it
\* finds.
CheckConnection(c) ==
    /\ isConnected' = [isConnected EXCEPT ![c] = PolledStatus(c)]
    /\ ev' = Event("check", c, NoMsg, isConnected[c], NoUser)
    /\ UNCHANGED <<timeoutPending, hasCanvas, canvas, handlerUserId, userId,
                   activeUsers, mgrVars, toClient, srvVars, nextObj,
                   localOps, closes, logVars>>

\* ------------------------------------------------- locally originated mutations

\* The shape tools modelled: rect stands for the shapes whose updates carry
\* geometry only (rect, circle, path), text for the textbox.
Kinds == {"rect", "text"}

\* The shape addShape constructs for a tool, at the fixed centre position.
NewShape(id, shapeType) ==
    IF shapeType = "rect"
    THEN [id |-> id, type |-> "rect", left |-> 0, width |-> 0]
    ELSE [id |-> id, type |-> "textbox", left |-> 0, text |-> 0]

\* The updates the object:modified handler sends for obj: the position and
\* the properties specific to the object's type.
ModifiedUpdates(obj) ==
    IF obj.type = "rect" THEN [left |-> obj.left, width |-> obj.width]
    ELSE IF obj.type = "textbox" THEN [left |-> obj.left, text |-> obj.text]
    ELSE [left |-> obj.left]

\* What every local mutation does after changing the canvas:
\* sendWebSocketMessage(message).  An envelope handed to an open transport
\* reaches the server; otherwise nothing is sent, now or later.
LocalStep(c, message) ==
    /\ localOps' = localOps + 1
    /\ IF SendOk(c) THEN SrvReceive(c, message)
       ELSE UNCHANGED <<srvObjects, toClient>>
    /\ ev' = Event(IF SendOk(c) THEN "local_sent" ELSE "local_unsent",
                   c, message, canvas[c], userId[c])
    /\ UNCHANGED <<timeoutPending, hasCanvas, handlerUserId, uiVars, mgrVars,
                   srvUser, nextUser, closes, logVars>>

\* A faulty addShape that keeps the shape only when it could be sent.
AddShape_Rollback(c, shapeType) ==
    /\ hasCanvas[c]
    /\ localOps < MaxLocalOps
    /\ LET shape == NewShape(nextObj, shapeType) IN
        /\ canvas' = [canvas EXCEPT ![c] = IF SendOk(c) THEN Append(@, shape) ELSE @]
        /\ LocalStep(c, [type |-> "add_object",
                         object |-> [id |-> shape.id, type |-> shapeType,
                                     data |-> toObject(shape)]])
    /\ nextObj' = nextObj + 1

\* addShape: canvas.add(shape), then add_object is sent.
AddShape(c, shapeType) ==
    /\ hasCanvas[c]
    /\ localOps < MaxLocalOps
    /\ LET shape == NewShape(nextObj, shapeType) IN
        /\ canvas' = [canvas EXCEPT ![c] = Append(@, shape)]
        /\ LocalStep(c, [type |-> "add_object",
                         object |-> [id |-> shape.id, type |-> shapeType,
                                     data |-> toObject(shape)]])
    /\ nextObj' = nextObj + 1

\* The user moves the object at position i to left = v; fabric changes the
\* object and fires object:modified, which sends update_object.
ObjectModified(c, i, v) ==
    /\ hasCanvas[c]
    /\ localOps < MaxLocalOps
    /\ i \in DOMAIN canvas[c]
    /\ canvas[c][i].left # v
    /\ LET obj == FabricSet(canvas[c][i], [left |-> v]) IN
        /\ canvas' = [canvas EXCEPT ![c][i] = obj]
        /\ LocalStep(c, [type |-> "update_object", object_id |-> obj.id,
                         updates |-> ModifiedUpdates(obj)])
    /\ UNCHANGED nextObj

\* The user edits the text of the textbox at position i; text:changed sends
\* update_object with the text alone.
TextChanged(c, i, v) ==
    /\ hasCanvas[c]
    /\ localOps < MaxLocalOps
    /\ i \in DOMAIN canvas[c]
    /\ canvas[c][i].type = "textbox"
    /\ canvas[c][i].text # v
    /\ LET obj == FabricSet(canvas[c][i], [text |-> v]) IN
        /\ canvas' = [canvas EXCEPT ![c][i] = obj]
        /\ LocalStep(c, [type |-> "update_object", object_id |-> obj.id,
                         updates |-> [text |-> obj.text]])
    /\ UNCHANGED nextObj

\* deleteSelectedObject with the object at position i selected.
DeleteSelected(c, i) ==
    /\ hasCanvas[c]
    /\ localOps < MaxLocalOps
    /\ i \in DOMAIN canvas[c]
    /\ canvas' = [canvas EXCEPT ![c] = RemoveAt(@, i)]
    /\ LocalStep(c, [type |-> "delete_object", object_id |-> canvas[c][i].id])
    /\ UNCHANGED nextObj

\* clearCanvas.
ClearCanvas(c) ==
    /\ hasCanvas[c]
    /\ localOps < MaxLocalOps
    /\ canvas' = [canvas EXCEPT ![c] = <<>>]
    /\ LocalStep(c, [type |-> "clear_canvas"])
    /\ UNCHANGED nextObj

\* ------------------------------------------------------------ specification

\* The object of a session that was drawn on before these clients joined.
ExistingObject == [id |-> 1, type |-> "text", data |-> [left |-> 0, text |-> 0]]

\* No transport has been created and nothing was sent.
LogInit ==
    /\ detached = [c \in Clients |-> [connecting |-> 0, open |-> 0, closing |-> 0]]
    /\ created = [c \in Clients |-> 0]
    /\ byTimer = [c \in Clients |-> FALSE]
    /\ failed = [c \in Clients |-> 0]
    /\ phase = [c \in Clients |-> "none"]
    /\ closures = [c \in Clients |-> 0]
    /\ disconnectCalled = [c \in Clients |-> FALSE]
    /\ executed = [c \in Clients |-> 0]
    /\ transmitted = [c \in Clients |-> <<>>]
    /\ refused = [c \in Clients |-> {}]
    /\ calls = 0

\* The session is new (createNewSession) or holds an object already
\* (joinExistingSession).  Every client has mounted its Whiteboard (userId = initialUserId = null) and
\* the main effect has scheduled the initialisation timeout.
Init ==
    /\ timeoutPending = [c \in Clients |-> TRUE]
    /\ hasCanvas = [c \in Clients |-> FALSE]
    /\ canvas = [c \in Clients |-> <<>>]
    /\ userId = [c \in Clients |-> NoUser]
    /\ handlerUserId = [c \in Clients |-> NoUser]
    /\ activeUsers = [c \in Clients |-> {}]
    /\ isConnected = [c \in Clients |-> FALSE]
    /\ hasManager = [c \in Clients |-> FALSE]
    /\ ws = [c \in Clients |-> "NONE"]
    /\ reconnectAttempts = [c \in Clients |-> 0]
    /\ isIntentionallyClosed = [c \in Clients |-> FALSE]
    /\ timer = [c \in Clients |-> 0]
    /\ toClient = [c \in Clients |-> <<>>]
    /\ srvObjects \in {<<>>, <<ExistingObject>>}
    /\ srvUser = [c \in Clients |-> NoUser]
    /\ nextUser = 1
    /\ nextObj = Len(srvObjects) + 1
    /\ localOps = 0
    /\ closes = 0
    /\ ev = Idle
    /\ LogInit

Next ==
    \E c \in Clients :
        \/ InitTimeout(c)
        \/ WsOpen(c)
        \/ OnMessage(c)
        \/ \E code \in CloseCodes : WsClose(c, code)
        \/ ReconnectTimer(c)
        \/ \E shapeType \in Kinds : AddShape(c, shapeType)
        \/ \E i \in DOMAIN canvas[c], v \in Vals : ObjectModified(c, i, v)
        \/ \E i \in DOMAIN canvas[c], v \in Vals : TextChanged(c, i, v)
        \/ \E i \in DOMAIN canvas[c] : DeleteSelected(c, i)
        \/ ClearCanvas(c)

Spec == Init /\ [][Next]_vars

\* ------------------------------------------------------ leaving the session

\* The cleanup of the main initialisation effect (unmount, or a change of
\* sessionId): setIsConnected(false); the manager in wsManagerRef, if any, is
\* disconnected and the ref cleared; the canvas, if any, is disposed.  The
\* initialisation timeout is not cleared.  The server learns of the closing
\* of an open transport; a connecting one is left as it is.
Cleanup(c) ==
    /\ phase[c] # "left"
    /\ phase' = [phase EXCEPT ![c] = "left"]
    /\ isConnected' = [isConnected EXCEPT ![c] = FALSE]
    /\ hasManager' = [hasManager EXCEPT ![c] = FALSE]
    /\ hasCanvas' = [hasCanvas EXCEPT ![c] = FALSE]
    /\ canvas' = [canvas EXCEPT ![c] = <<>>]
    /\ IF hasManager[c]
       THEN /\ isIntentionallyClosed' = [isIntentionallyClosed EXCEPT ![c] = TRUE]
            /\ disconnectCalled' = [disconnectCalled EXCEPT ![c] = TRUE]
            /\ detached' = [detached EXCEPT ![c] =
                    IF ws[c] = "OPEN" THEN [@ EXCEPT !.closing = @ + 1]
                    ELSE IF ws[c] = "CONNECTING" THEN [@ EXCEPT !.connecting = @ + 1]
                    ELSE @]
            /\ ws' = [ws EXCEPT ![c] = "NONE"]
            /\ srvUser' = [srvUser EXCEPT ![c] = NoUser]
            /\ LET users == {srvUser'[d] : d \in Clients} \ {NoUser} IN
               toClient' = [IF srvUser[c] # NoUser
                            THEN Broadcast(toClient, Connected \ {c},
                                    [type |-> "user_left", active_users |-> users])
                            ELSE toClient
                            EXCEPT ![c] = <<>>]
       ELSE UNCHANGED <<isIntentionallyClosed, disconnectCalled, detached, ws,
                        srvUser, toClient>>
    /\ ev' = Event("cleanup", c, NoMsg, canvas[c], userId[c])
    /\ UNCHANGED <<timeoutPending, handlerUserId, userId, activeUsers,
                   reconnectAttempts, timer, srvObjects, nextUser, nextObj,
                   localOps, closes, created, byTimer, failed, closures,
                   executed, transmitted, refused, calls>>

\* ------------------------------------------------ frames from the network

\* Frames on their way to a client at a time.
MaxInFlight == 2

\* A frame whose text is not JSON.
Garbled == [text |-> "garbled"]

\* Objects of another client's making: a rectangle, a text, an object of a
\* kind fabric has no class for here, and a rectangle without attributes.
PeerRect == [id |-> 7, type |-> "rect", data |-> [left |-> 1, width |-> 1]]
PeerText == [id |-> 9, type |-> "text", data |-> [left |-> 1, text |-> 1]]
PeerStar == [id |-> 8, type |-> "star", data |-> [left |-> 1]]
PeerBroken == [id |-> 8, type |-> "rect"]

\* A snapshot of the session of client 5 with the given objects.
Snapshot(objects) ==
    [type |-> "session_state", user_id |-> 5, active_users |-> {5},
     objects |-> objects]

\* Frames with objects of an unknown kind or without attributes, alone or in
\* a snapshot.
ObjectFrames ==
    {[type |-> "object_added", user_id |-> 5, object |-> PeerStar],
     Snapshot(<<PeerStar, PeerRect>>),
     Snapshot(<<PeerRect, PeerBroken, PeerText>>)}

\* Frames a transport can deliver besides those of the session server: text
\* that is not JSON, an error report, a type of a later protocol version,
\* envelopes without the properties of their type, and membership lists.
Frames ==
    {Garbled,
     [type |-> "error", message |-> "failed"],
     [type |-> "cursor_moved", user_id |-> NoUser],
     [type |-> "object_added"],
     [type |-> "session_state"],
     [type |-> "user_joined"],
     [type |-> "user_left", active_users |-> {NoUser}]}

\* A frame arrives at the open transport of c, behind those not handled yet.
Inject(c, frame) ==
    /\ hasManager[c]
    /\ ws[c] = "OPEN"
    /\ Len(toClient[c]) < MaxInFlight
    /\ toClient' = [toClient EXCEPT ![c] = Append(@, frame)]
    /\ ev' = Idle
    /\ UNCHANGED <<timeoutPending, hasCanvas, canvas, handlerUserId, uiVars,
                   mgrVars, srvVars, nextObj, localOps, closes, logVars>>

\* A step of the component of c, of its manager, of its transport or of its
\* polling interval.
WireStep(c) ==
    \/ InitTimeout(c)
    \/ WsOpen(c)
    \/ \E frame \in Frames : Inject(c, frame)
    \/ OnMessage(c)
    \/ CheckConnection(c)
    \/ \E code \in CloseCodes : WsClose(c, code)
    \/ ReconnectTimer(c)
    \/ \E shapeType \in Kinds : AddShape(c, shapeType)
    \/ \E i \in DOMAIN canvas[c], v \in Vals : ObjectModified(c, i, v)
    \/ \E i \in DOMAIN canvas[c], v \in Vals : TextChanged(c, i, v)
    \/ \E i \in DOMAIN canvas[c] : DeleteSelected(c, i)
    \/ ClearCanvas(c)

\* One client, its session server and whatever else its transport delivers.
WireNext == WireStep("A")

WireSpec == Init /\ [][WireNext]_vars

\* A step of the component of c with the frames of objects arriving.
ObjectStep(c) ==
    \/ InitTimeout(c)
    \/ WsOpen(c)
    \/ \E frame \in ObjectFrames : Inject(c, frame)
    \/ OnMessage(c)
    \/ \E code \in CloseCodes : WsClose(c, code)
    \/ ReconnectTimer(c)
    \/ \E shapeType \in Kinds : AddShape(c, shapeType)
    \/ \E i \in DOMAIN canvas[c] : DeleteSelected(c, i)

\* One client, its session server and peers whose objects are not all valid.
ObjectNext == ObjectStep("A")

ObjectSpec == Init /\ [][ObjectNext]_vars

\* ------------------------------------------- the connection manager on its own

\* connect(), disconnect() and sendMessage() calls the callers make in a run.
MaxCalls == 2

\* Closures of transports in a run of MgrSpec.
MaxFailures == 5

MessageTooBig == 1009

\* The close codes the transport reports to a manager.
MgrCloseCodes == {AbnormalClosure, PolicyViolation, UnsupportedData, MessageTooBig}

boardVars == <<timeoutPending, hasCanvas, canvas, handlerUserId, uiVars, hasManager,
               toClient, srvVars, nextObj, localOps>>

\* The properties of the manager object.
Fields(c) ==
    [readyState |-> ws[c], reconnectAttempts |-> reconnectAttempts[c],
     isIntentionallyClosed |-> isIntentionallyClosed[c]]

\* The transports manager c created that are connecting or open.
Live(c) ==
    (IF ws[c] \in {"CONNECTING", "OPEN"} THEN 1 ELSE 0)
        + detached[c].connecting + detached[c].open

\* manager.isConnected().
ManagerIsConnected(c) == hasManager[c] /\ ws[c] = "OPEN"

\* The manager and its transports before a step, kept in ev.
MgrBefore(c) ==
    [fields |-> Fields(c), timer |-> timer[c], created |-> created[c],
     live |-> Live(c), transmitted |-> transmitted[c]]

MgrEvent(op, c, msg) == Event(op, c, msg, MgrBefore(c), NoUser)

\* A caller calls manager.connect().
Connect(c) ==
    /\ hasManager[c]
    /\ calls < MaxCalls
    /\ calls' = calls + 1
    /\ ws' = [ws EXCEPT ![c] = connect(@)]
    /\ IF connect(ws[c]) # ws[c]
       THEN /\ created' = [created EXCEPT ![c] = @ + 1]
            /\ byTimer' = [byTimer EXCEPT ![c] = FALSE]
            /\ phase' = [phase EXCEPT ![c] = IF @ = "gave_up" THEN "reopened" ELSE "none"]
       ELSE UNCHANGED <<created, byTimer, phase>>
    /\ ev' = MgrEvent("connect", c, [type |-> "connect"])
    /\ UNCHANGED <<boardVars, reconnectAttempts, isIntentionallyClosed, timer,
                   closes, detached, failed, closures, disconnectCalled,
                   executed, transmitted, refused>>

\* A caller calls manager.disconnect(): the flag is set, an open transport is
\* closed, a transport in any other state is left as it is, and this.ws
\* becomes null.
Disconnect(c) ==
    /\ hasManager[c]
    /\ calls < MaxCalls
    /\ calls' = calls + 1
    /\ isIntentionallyClosed' = [isIntentionallyClosed EXCEPT ![c] = TRUE]
    /\ disconnectCalled' = [disconnectCalled EXCEPT ![c] = TRUE]
    /\ detached' = [detached EXCEPT ![c] =
            IF ws[c] = "OPEN" THEN [@ EXCEPT !.closing = @ + 1]
            ELSE IF ws[c] = "CONNECTING" THEN [@ EXCEPT !.connecting = @ + 1]
            ELSE @]
    /\ ws' = [ws EXCEPT ![c] = "NONE"]
    /\ byTimer' = [byTimer EXCEPT ![c] = FALSE]
    /\ phase' = [phase EXCEPT ![c] = "closed"]
    /\ ev' = MgrEvent("disconnect", c, [type |-> "disconnect"])
    /\ UNCHANGED <<boardVars, reconnectAttempts, timer, closes, created, failed,
                   closures, executed, transmitted, refused>>

\* The envelopes handed to ws.send after sendMessage(m) on a transport in
\* readyState st, by a faulty manager that sends whatever the state.
sendMessage_Unchecked(log, st, m) == Append(log, m)

\* The envelopes handed to ws.send after sendMessage(m) on a transport in
\* readyState st.
sendMessage(log, st, m) == IF st = "OPEN" THEN Append(log, m) ELSE log

\* A caller calls sendMessage(manager, m) with a new envelope m.
Send(c) ==
    /\ calls < MaxCalls
    /\ calls' = calls + 1
    /\ LET m == calls + 1 IN
        /\ transmitted' = [transmitted EXCEPT ![c] = sendMessage(@, ws[c], m)]
        /\ refused' = [refused EXCEPT ![c] = IF SendOk(c) THEN @ ELSE @ \cup {m}]
        /\ ev' = MgrEvent("send", c, [type |-> "send", id |-> m, result |-> SendOk(c)])
    /\ UNCHANGED <<boardVars, mgrVars, closes, detached, created, byTimer, failed,
                   phase, closures, disconnectCalled, executed>>

\* ws.onopen of the transport this.ws refers to.
MgrOpen(c) ==
    /\ ws[c] = "CONNECTING"
    /\ ws' = [ws EXCEPT ![c] = "OPEN"]
    /\ reconnectAttempts' = [reconnectAttempts EXCEPT ![c] = onopen(@)]
    /\ byTimer' = [byTimer EXCEPT ![c] = FALSE]
    /\ failed' = [failed EXCEPT ![c] = 0]
    /\ phase' = [phase EXCEPT ![c] = "none"]
    /\ ev' = MgrEvent("open", c, [type |-> "open", detached |-> FALSE])
    /\ UNCHANGED <<boardVars, isIntentionallyClosed, timer, closes, detached,
                   created, closures, disconnectCalled, executed, transmitted,
                   refused, calls>>

\* The return ws.onclose takes: after an intentional close, with the attempts
\* used up, for a code it does not retry after, or else with a reconnect
\* scheduled.
ClosePhase(c, code) ==
    IF isIntentionallyClosed[c] THEN "closed"
    ELSE IF reconnectAttempts[c] >= maxReconnectAttempts THEN "gave_up"
    ELSE IF code = PolicyViolation \/ code = UnsupportedData THEN "terminal"
    ELSE "retrying"

\* What ws.onclose does to the manager, whichever of its transports closed.
onclose(c, code) ==
    /\ closes < MaxFailures
    /\ closes' = closes + 1
    /\ closures' = [closures EXCEPT ![c] = @ + 1]
    /\ IF Reschedules(c, code)
       THEN /\ reconnectAttempts' = [reconnectAttempts EXCEPT ![c] = @ + 1]
            /\ timer' = [timer EXCEPT ![c] = @ + 1]
       ELSE UNCHANGED <<reconnectAttempts, timer>>
    /\ phase' = [phase EXCEPT ![c] = ClosePhase(c, code)]

\* The transport this.ws refers to closes with the given code (a drop, a
\* failed connect, or the server closing it).
MgrClose(c, code) ==
    /\ ws[c] \in {"CONNECTING", "OPEN"}
    /\ ws' = [ws EXCEPT ![c] = "CLOSED"]
    /\ onclose(c, code)
    /\ failed' = [failed EXCEPT ![c] = IF byTimer[c] THEN @ + 1 ELSE @]
    /\ byTimer' = [byTimer EXCEPT ![c] = FALSE]
    /\ ev' = MgrEvent("close", c, [type |-> "close", code |-> code, detached |-> FALSE])
    /\ UNCHANGED <<boardVars, isIntentionallyClosed, detached, created,
                   disconnectCalled, executed, transmitted, refused, calls>>

\* ws.onopen of a transport disconnect() left connecting.
DetachedOpen(c) ==
    /\ detached[c].connecting > 0
    /\ detached' = [detached EXCEPT ![c].connecting = @ - 1, ![c].open = @ + 1]
    /\ reconnectAttempts' = [reconnectAttempts EXCEPT ![c] = onopen(@)]
    /\ failed' = [failed EXCEPT ![c] = 0]
    /\ ev' = MgrEvent("open", c, [type |-> "open", detached |-> TRUE])
    /\ UNCHANGED <<boardVars, ws, isIntentionallyClosed, timer, closes, created,
                   byTimer, phase, closures, disconnectCalled, executed,
                   transmitted, refused, calls>>

\* ws.onclose of a transport the manager no longer refers to: the one
\* disconnect() closed, or one it left connecting.
DetachedClose(c, kind, code) ==
    /\ detached[c][kind] > 0
    /\ detached' = [detached EXCEPT ![c][kind] = @ - 1]
    /\ onclose(c, code)
    /\ ev' = MgrEvent("close", c, [type |-> "close", code |-> code, detached |-> TRUE])
    /\ UNCHANGED <<boardVars, ws, isIntentionallyClosed, created, byTimer, failed,
                   disconnectCalled, executed, transmitted, refused, calls>>

\* The reconnect timeout of a manager fires.
MgrTimer(c) ==
    /\ timer[c] > 0
    /\ timer' = [timer EXCEPT ![c] = @ - 1]
    /\ IF TimerConnects(c)
       THEN /\ ws' = [ws EXCEPT ![c] = connect(@)]
            /\ executed' = [executed EXCEPT ![c] = @ + 1]
            /\ IF connect(ws[c]) # ws[c]
               THEN /\ created' = [created EXCEPT ![c] = @ + 1]
                    /\ byTimer' = [byTimer EXCEPT ![c] = TRUE]
               ELSE UNCHANGED <<created, byTimer>>
       ELSE UNCHANGED <<ws, executed, created, byTimer>>
    /\ ev' = MgrEvent("timer", c, [type |-> "timer", connects |-> TimerConnects(c)])
    /\ UNCHANGED <<boardVars, reconnectAttempts, isIntentionallyClosed, closes,
                   detached, failed, phase, closures, disconnectCalled,
                   transmitted, refused, calls>>

\* Every client has mounted and its initialisation timeout has run:
\* connectWebSocket constructed the manager and called connect().
MgrInit ==
    /\ timeoutPending = [c \in Clients |-> FALSE]
    /\ hasCanvas = [c \in Clients |-> TRUE]
    /\ canvas = [c \in Clients |-> <<>>]
    /\ userId = [c \in Clients |-> NoUser]
    /\ handlerUserId = [c \in Clients |-> NoUser]
    /\ activeUsers = [c \in Clients |-> {}]
    /\ isConnected = [c \in Clients |-> FALSE]
    /\ hasManager = [c \in Clients |-> TRUE]
    /\ ws = [c \in Clients |-> connect("NONE")]
    /\ reconnectAttempts = [c \in Clients |-> 0]
    /\ isIntentionallyClosed = [c \in Clients |-> FALSE]
    /\ timer = [c \in Clients |-> 0]
    /\ toClient = [c \in Clients |-> <<>>]
    /\ srvObjects = <<>>
    /\ srvUser = [c \in Clients |-> NoUser]
    /\ nextUser = 1
    /\ nextObj = 1
    /\ localOps = 0
    /\ closes = 0
    /\ ev = Idle
    /\ detached = [c \in Clients |-> [connecting |-> 0, open |-> 0, closing |-> 0]]
    /\ created = [c \in Clients |-> 1]
    /\ byTimer = [c \in Clients |-> FALSE]
    /\ failed = [c \in Clients |-> 0]
    /\ phase = [c \in Clients |-> "none"]
    /\ closures = [c \in Clients |-> 0]
    /\ disconnectCalled = [c \in Clients |-> FALSE]
    /\ executed = [c \in Clients |-> 0]
    /\ transmitted = [c \in Clients |-> <<>>]
    /\ refused = [c \in Clients |-> {}]
    /\ calls = 0

\* An event of manager c: of one of its transports, of its timeout, or a
\* call by its holder.
MgrStep(c) ==
    \/ MgrOpen(c)
    \/ \E code \in MgrCloseCodes : MgrClose(c, code)
    \/ MgrTimer(c)
    \/ DetachedOpen(c)
    \/ \E kind \in {"connecting", "open", "closing"}, code \in MgrCloseCodes :
            DetachedClose(c, kind, code)
    \/ Send(c)
    \/ Disconnect(c)
    \/ Connect(c)

\* One manager from connectWebSocket on, the other waiting for its transport.
MgrNext == MgrStep("A")

MgrSpec == MgrInit /\ [][MgrNext]_vars

\* The manager with its reconnect timeouts firing: a timeout that was set
\* runs its callback.
MgrLiveSpec == MgrSpec /\ WF_vars(MgrTimer("A"))

\* The managers of two clients side by side.
ManagersNext == \E c \in Clients : MgrStep(c)

ManagersSpec == MgrInit /\ [][ManagersNext]_vars

\* A step in the life of the component of c: mounted, initialised by its
\* timeout, and left, in any order of the two; its manager and the transports
\* the manager created.
LifeStep(c) ==
    \/ Cleanup(c)
    \/ InitTimeout(c)
    \/ WsOpen(c)
    \/ \E frame \in Frames : Inject(c, frame)
    \/ OnMessage(c)
    \/ \E code \in CloseCodes : WsClose(c, code)
    \/ ReconnectTimer(c)
    \/ DetachedOpen(c)
    \/ \E kind \in {"connecting", "open", "closing"}, code \in MgrCloseCodes :
            DetachedClose(c, kind, code)

LifeNext == LifeStep("A")

LifeSpec == Init /\ [][LifeNext]_vars

\* ------------------------------------------------------------------ claims

\* The message the last step handled, the client that handled it, and that
\* client's store before and after.
Handled(type) == ev.op = "recv" /\ ev.msg.type = type
HandledMutation == ev.op = "recv" /\ ev.msg.type \in Mutations
SelfOriginated == ev.msg.user_id = ev.self
Before == ev.before
After == canvas[ev.c]

\* C1: a mutation message whose originator is the client's current ClientId
\* (the user_id of its latest session_state) leaves the client's store as it
\* was.
SelfEchoSuppressed ==
    (HandledMutation /\ SelfOriginated) => After = Before

\* The server's store as a client shows it.
ServerView == LoadObjects(<<>>, ObjectList(srvObjects))

\* Every client is connected and has handled everything sent to it.
Quiescent == \A c \in Clients : ws[c] = "OPEN" /\ toClient[c] = <<>>

\* C2: once every client is connected and every message sent has been
\* delivered and handled, every client's store holds exactly the server's
\* objects.
Converged ==
    Quiescent => \A c \in Clients : BagOf(canvas[c]) = BagOf(ServerView)

\* The reference operations on a store: add replaces the entry of that id,
\* update merges into it, remove drops it.
RefAdd(objs, objData) ==
    SelectSeq(objs, LAMBDA o : o.id # objData.id) \o FabricObject(objData)
RefUpdate(objs, objectId, updates) ==
    [i \in DOMAIN objs |->
        IF objs[i].id = objectId THEN FabricSet(objs[i], updates) ELSE objs[i]]
RefRemove(objs, objectId) == SelectSeq(objs, LAMBDA o : o.id # objectId)
RefApply(objs, data) ==
    CASE data.type = "object_added" -> RefAdd(objs, data.object)
      [] data.type = "object_updated" -> RefUpdate(objs, data.object_id, data.updates)
      [] data.type = "object_deleted" -> RefRemove(objs, data.object_id)
      [] OTHER -> objs

\* C3: an object_added, object_updated or object_deleted message of another
\* originator leaves the store equal to the reference operation applied to
\* the store before.
RemoteApplied ==
    (HandledMutation /\ ev.msg.type # "canvas_cleared" /\ ~SelfOriginated)
        => BagOf(After) = BagOf(RefApply(Before, ev.msg))

\* The fabric type shown for a wire type.
ShownType(type) == IF type = "text" THEN "textbox" ELSE type

\* C4: after a session_state message the store holds exactly the objects of
\* the message's list, each once, with the list's attributes.
BootstrapReplaces ==
    Handled("session_state") =>
        /\ Len(After) = Len(ev.msg.objects)
        /\ \A k \in DOMAIN After :
            /\ After[k].id = ev.msg.objects[k].id
            /\ After[k].type = ShownType(ev.msg.objects[k].type)
            /\ toObject(After[k]) = ev.msg.objects[k].data

\* A snapshot with objects replaced a store that held an object the server
\* never received.
BootstrapReplacesWitness ==
    /\ Handled("session_state")
    /\ ev.msg.objects # <<>>
    /\ \E i \in DOMAIN Before : Before[i].id \notin DOMAIN srvObjects
    /\ After # Before

\* C5: once a session_state was handled, the id the handler compares
\* originators with is the user_id of the latest session_state.
ClientIdFollowsBootstrap ==
    \A c \in Clients : userId[c] # NoUser => handlerUserId[c] = userId[c]

\* C6: no store holds two objects of the same id.
NoDuplicateIds ==
    \A c \in Clients : \A i, j \in DOMAIN canvas[c] :
        canvas[c][i].id = canvas[c][j].id => i = j

\* C7: after an add of an object whose id the store held already, the store
\* holds that id once, with the added object's attributes.
AddIdempotent ==
    (Handled("object_added") /\ After # Before
        /\ CountId(Before, ev.msg.object.id) > 0)
    => /\ CountId(After, ev.msg.object.id) = 1
       /\ \A i \in DOMAIN After :
            After[i].id = ev.msg.object.id => toObject(After[i]) = ev.msg.object.data

\* The position of the object an update or delete message names, in the
\* store before the message was handled.
Target == FindIndex(Before, ev.msg.object_id)

\* The handler took the message as another client's and applied it.
Applied == IsRemote(ev.msg, handlerUserId[ev.c])

\* C8: an update applied to an existing object writes the keys of updates,
\* keeps the object's other keys, and keeps every other object.
UpdateShallowMerge ==
    (Handled("object_updated") /\ Applied /\ Target # 0) =>
        /\ DOMAIN After = DOMAIN Before
        /\ \A k \in DOMAIN ev.msg.updates : After[Target][k] = ev.msg.updates[k]
        /\ \A k \in DOMAIN Before[Target] \ DOMAIN ev.msg.updates :
                After[Target][k] = Before[Target][k]
        /\ \A i \in DOMAIN Before : i # Target => After[i] = Before[i]

\* An update of the text alone changed an object that had been moved.
UpdateShallowMergeWitness ==
    /\ Handled("object_updated") /\ Applied /\ Target # 0
    /\ DOMAIN ev.msg.updates = {"text"}
    /\ Before[Target].left # 0
    /\ After # Before

\* C9: an update or a delete naming an id the store does not hold leaves the
\* store as it was, and the connection stays open.
MissingIdNoOp ==
    ((Handled("object_updated") \/ Handled("object_deleted")) /\ Target = 0)
        => After = Before /\ ws[ev.c] = "OPEN"

\* An update arrived for an id the store does not hold, while the store held
\* another object.
MissingIdNoOpWitness ==
    /\ Handled("object_updated") /\ Applied /\ Target = 0
    /\ Before # <<>>

\* C10: canvas_cleared of another originator empties the store; a
\* self-originated one leaves it as it was.
ClearedByOthersOnly ==
    Handled("canvas_cleared") =>
        IF SelfOriginated THEN After = Before ELSE After = <<>>

\* ------------------------------------------ claims on the connection manager

\* The last step was the given event of a manager.
MgrDid(op) == ev.op = op

\* C11: once disconnect() was called on a manager, no closure of one of its
\* transports schedules a reconnect and no reconnect timeout connects or
\* creates a transport, also when the timeout was scheduled before the call.
NoReconnectAfterClose ==
    ((MgrDid("close") \/ MgrDid("timer")) /\ disconnectCalled[ev.c]) =>
        /\ timer[ev.c] <= ev.before.timer
        /\ created[ev.c] = ev.before.created
        /\ ws[ev.c] = ev.before.fields.readyState \/ MgrDid("close")
        /\ MgrDid("timer") => ~ev.msg.connects

\* A reconnect timeout scheduled before disconnect() fired after it.
NoReconnectAfterCloseWitness ==
    /\ MgrDid("timer")
    /\ disconnectCalled[ev.c]
    /\ closures[ev.c] > 0
    /\ executed[ev.c] = 0

\* C12: when three reconnections in a row have closed without opening, the
\* manager has no reconnect timeout scheduled and no transport that a timeout
\* created, and there is never a fourth.
GivesUpAfterMaxAttempts ==
    \A c \in Clients :
        failed[c] >= maxReconnectAttempts =>
            /\ failed[c] = maxReconnectAttempts
            /\ timer[c] = 0
            /\ ~byTimer[c]

\* A closure the manager did not ask for, reported as abnormal, with
\* attempts remaining.
UnexpectedClosure ==
    /\ MgrDid("close")
    /\ ~disconnectCalled[ev.c]
    /\ ev.msg.code = AbnormalClosure
    /\ ev.before.fields.reconnectAttempts < maxReconnectAttempts

\* C13: such a closure schedules one reconnect timeout and no closure
\* schedules two; a timeout fires once and connects unless disconnect() was
\* called; no more timeouts exist than closures happened.
ClosureSchedulesOnce ==
    /\ UnexpectedClosure => timer[ev.c] = ev.before.timer + 1
    /\ MgrDid("close") => timer[ev.c] \in {ev.before.timer, ev.before.timer + 1}
    /\ MgrDid("timer") =>
        /\ timer[ev.c] = ev.before.timer - 1
        /\ ev.msg.connects <=> ~disconnectCalled[ev.c]
    /\ \A c \in Clients : executed[c] + timer[c] <= closures[c]

\* The third closure in a row of a manager scheduled its reconnect.
ClosureSchedulesOnceWitness ==
    /\ UnexpectedClosure
    /\ ev.before.fields.reconnectAttempts = maxReconnectAttempts - 1
    /\ executed[ev.c] = maxReconnectAttempts - 1

\* The close codes the claim calls non-retryable: policy violation, invalid
\* payload, oversized message.
NonRetryable == {PolicyViolation, UnsupportedData, MessageTooBig}

\* C14: a closure with a non-retryable code schedules no reconnect.
NonRetryableNeverScheduled ==
    (MgrDid("close") /\ ev.msg.code \in NonRetryable)
        => timer[ev.c] = ev.before.timer

\* What the holder of a manager can find out about it: the result of
\* isConnected() and the properties of the object.
Observable(c) == [isConnected |-> ManagerIsConnected(c), fields |-> Fields(c)]

\* C15: a manager whose transport closed with a code it does not retry after
\* shows its holder something else than a manager whose closure is being
\* retried and than a manager closed by disconnect().
TerminalIsDistinct ==
    \A c, d \in Clients :
        (phase[c] = "terminal" /\ phase[d] \in {"retrying", "closed"})
            => Observable(c) # Observable(d)

\* C16: sendMessage returns true exactly when this.ws is open; the envelope
\* is then handed to the transport once, and otherwise not at all.
SendSucceedsWhenOpen ==
    MgrDid("send") =>
        /\ ev.msg.result <=> (ev.before.fields.readyState = "OPEN")
        /\ transmitted[ev.c] =
                IF ev.before.fields.readyState = "OPEN"
                THEN Append(ev.before.transmitted, ev.msg.id)
                ELSE ev.before.transmitted

\* sendMessage was called while the transport was connecting.
SendSucceedsWhenOpenWitness ==
    /\ MgrDid("send")
    /\ ev.before.fields.readyState = "CONNECTING"
    /\ ~ev.msg.result

\* C17: the envelopes handed to a transport are those sendMessage returned
\* true for, each once; a refused envelope is never among them.
NoBuffering ==
    \A c \in Clients :
        /\ Range(transmitted[c]) \cap refused[c] = {}
        /\ Cardinality(Range(transmitted[c])) = Len(transmitted[c])
        /\ MgrDid("send") /\ ev.c = c =>
                (ev.msg.result <=> ev.msg.id \in Range(transmitted[c]))

\* An envelope was refused and the manager's reconnection has opened since.
NoBufferingWitness ==
    \E c \in Clients :
        /\ refused[c] # {}
        /\ ws[c] = "OPEN"
        /\ executed[c] > 0
        /\ MgrDid("open")

\* The store after holds the local change of envelope m made to the store
\* before: the added object at the end, one entry of the deleted id less, or
\* nothing after a clear.
KeptLocally(before, after, m) ==
    CASE m.type = "add_object" -> after = before \o FabricObject(m.object)
      [] m.type = "delete_object" ->
            /\ Len(after) = Len(before) - 1
            /\ CountId(after, m.object_id) = CountId(before, m.object_id) - 1
      [] m.type = "clear_canvas" -> after = <<>>
      [] OTHER -> TRUE

\* C18: a local add, delete or clear changes the local store whether or not
\* its envelope can be sent; when the transport is not open, the server and
\* the queues are left as they were, and the server's store only ever changes
\* in the step of a local mutation made on an open transport.
OptimisticApply ==
    [][/\ localOps' # localOps =>
            /\ KeptLocally(canvas[ev'.c], canvas'[ev'.c], ev'.msg)
            /\ ws[ev'.c] # "OPEN" =>
                    /\ ev'.op = "local_unsent"
                    /\ srvObjects' = srvObjects
                    /\ toClient' = toClient
       /\ srvObjects' # srvObjects =>
            /\ localOps' # localOps
            /\ ws[ev'.c] = "OPEN"
            /\ srvObjects' = SrvApply(srvObjects, ev'.msg)]_vars

\* A shape was added while the transport was not open and the store holds it.
OptimisticApplyWitness ==
    /\ ev.op = "local_unsent"
    /\ ev.msg.type = "add_object"
    /\ ws[ev.c] # "OPEN"
    /\ CountId(canvas[ev.c], ev.msg.object.id) = 1
    /\ ev.msg.object.id \notin DOMAIN srvObjects

\* C19: connect() on a manager whose transport is connecting or open creates
\* no transport and leaves the manager as it was.
IdempotentOpen ==
    (MgrDid("connect") /\ ev.before.fields.readyState \in {"CONNECTING", "OPEN"})
        => /\ created[ev.c] = ev.before.created
           /\ Fields(ev.c) = ev.before.fields
           /\ timer[ev.c] = ev.before.timer

\* connect() was called on a manager whose transport was open.
IdempotentOpenWitness ==
    /\ MgrDid("connect")
    /\ ev.before.fields.readyState = "OPEN"

\* C20: at most one transport a manager created is connecting or open.
SingleTransport == \A c \in Clients : Live(c) <= 1

\* C21: a manager that disconnect() closed, or whose last closure found the
\* attempts used up, creates no transport in any later step.
ClosedIsTerminal ==
    [][\A c \in Clients :
            (disconnectCalled[c] \/ phase[c] = "gave_up")
                => created'[c] = created[c]]_vars

\* C22: the transport a connect() call made for a manager that had given up
\* starts a new sequence: when it closes abnormally, before any disconnect(),
\* a reconnect is scheduled.
FreshAttemptsAfterGiveUp ==
    [][\A c \in Clients :
            (/\ phase[c] = "reopened"
             /\ ~isIntentionallyClosed[c]
             /\ closures'[c] = closures[c] + 1
             /\ ~ev'.msg.detached
             /\ ev'.msg.code = AbnormalClosure)
                => timer'[c] = timer[c] + 1]_vars

\* The state of the specified machine a manager is in: by its transport, and
\* without one, by what ended it (disconnect(), a pending reconnect, or a
\* closure nothing follows).
MgrState(c) ==
    CASE ws[c] = "CONNECTING" -> "connecting"
      [] ws[c] = "OPEN" -> "open"
      [] isIntentionallyClosed[c] -> "closed"
      [] ws[c] = "NONE" -> "idle"
      [] timer[c] > 0 -> "reconnecting"
      [] OTHER -> "gave-up"

\* The transitions of the specified machine, with close from every state and
\* the reopening of a manager that gave up.
Transitions ==
    {<<"idle", "connecting">>, <<"connecting", "open">>,
     <<"connecting", "reconnecting">>, <<"open", "reconnecting">>,
     <<"reconnecting", "connecting">>, <<"reconnecting", "gave-up">>,
     <<"connecting", "gave-up">>, <<"open", "gave-up">>,
     <<"gave-up", "connecting">>}
        \cup {<<s, "closed">> :
                s \in {"idle", "connecting", "open", "reconnecting", "gave-up"}}

\* C29: every step of a manager stays in its state of the specified machine
\* or takes one of its transitions.
FollowsStateMachine ==
    [][\A c \in Clients :
            \/ MgrState(c)' = MgrState(c)
            \/ <<MgrState(c), MgrState(c)'>> \in Transitions]_vars

\* C30: the reconnect attempt counter of every manager is between 0 and
\* maxReconnectAttempts.
AttemptsInRange ==
    \A c \in Clients :
        reconnectAttempts[c] >= 0 /\ reconnectAttempts[c] <= maxReconnectAttempts

\* The closure that used up the last attempt: the counter was at its maximum
\* less one and is at its maximum.
AttemptsInRangeWitness ==
    /\ MgrDid("close")
    /\ ev.before.fields.reconnectAttempts = maxReconnectAttempts - 1
    /\ reconnectAttempts[ev.c] = maxReconnectAttempts

\* The client has handled the session_state of its present connection: its
\* ClientId is the one the server gave this connection.
Bootstrapped(c) == userId[c] = srvUser[c]

\* C23: on an open connection whose session_state the client has not handled
\* yet, that snapshot is the next message; every mutation message is handled
\* after the snapshot of its connection; and the snapshot leaves the store
\* holding its objects and nothing of the store before.
ResyncOnReconnect ==
    /\ \A c \in Clients :
            (hasManager[c] /\ ws[c] = "OPEN" /\ ~Bootstrapped(c))
                => /\ toClient[c] # <<>>
                   /\ Head(toClient[c]).type = "session_state"
                   /\ Head(toClient[c]).user_id = srvUser[c]
    /\ HandledMutation => ev.self = srvUser[ev.c]
    /\ Handled("session_state") => After = LoadObjects(<<>>, ev.msg.objects)

\* A client that had a ClientId already handled the snapshot of a new
\* connection, which replaced a store holding something else.
ResyncOnReconnectWitness ==
    /\ Handled("session_state")
    /\ ev.self # NoUser
    /\ Before # <<>>
    /\ After # Before

\* C28: after an object_deleted message of another originator the store
\* holds no object of the deleted id.
RemoteDeleteRemoves ==
    (Handled("object_deleted") /\ ~SelfOriginated)
        => CountId(After, ev.msg.object_id) = 0

\* The step is ws.onmessage of client c.
Handling(c) == ev'.c = c /\ ev'.op \in {"recv", "dropped", "ignored"}

\* The types whose envelopes carry the session's members.
Membership == {"session_state", "user_joined", "user_left"}

\* C24: the ActiveUserSet of a client changes only in the step that handles
\* a session_state, user_joined or user_left message, and after such a step
\* it is the message's list, or empty for a message without list.
ActiveUsersFrame ==
    [][\A c \in Clients :
        /\ activeUsers'[c] # activeUsers[c] =>
                /\ Handling(c)
                /\ ev'.op # "ignored"
                /\ Parses(ev'.msg)
                /\ ev'.msg.type \in Membership
        /\ (/\ Handling(c)
            /\ ev'.op # "ignored"
            /\ Parses(ev'.msg)
            /\ ev'.msg.type \in Membership) =>
                activeUsers'[c] = IF "active_users" \in DOMAIN ev'.msg
                                  THEN ev'.msg.active_users ELSE {}]_vars

\* A client that had handled its session_state handled a user_joined message
\* without list, and its member set is empty.
ActiveUsersFrameWitness ==
    /\ Handled("user_joined")
    /\ "active_users" \notin DOMAIN ev.msg
    /\ ev.self # NoUser
    /\ activeUsers[ev.c] = {}

\* The envelope types of the protocol, error apart.
Recognized == Mutations \cup Membership

\* C25: the step that handles an envelope of type error or of a type the
\* protocol does not have ends without exception, leaves the store, the
\* ClientId, the ActiveUserSet and the manager as they were and the transport
\* open, and takes that envelope alone from the frames to handle.
UnknownTypesIgnored ==
    [][\A c \in Clients :
        (/\ Handling(c)
         /\ hasCanvas[c]
         /\ Parses(Head(toClient[c]))
         /\ Head(toClient[c]).type \notin Recognized)
            => /\ ev'.op = "recv"
               /\ canvas'[c] = canvas[c]
               /\ userId'[c] = userId[c]
               /\ activeUsers'[c] = activeUsers[c]
               /\ ws'[c] = "OPEN"
               /\ UNCHANGED <<hasManager, reconnectAttempts, timer>>
               /\ toClient'[c] = Tail(toClient[c])]_vars

\* An envelope of a type the protocol does not have was handled by a client
\* with objects in its store, and the next frame is waiting.
UnknownTypesIgnoredWitness ==
    /\ ev.op = "recv"
    /\ ev.msg.type = "cursor_moved"
    /\ canvas[ev.c] # <<>>
    /\ toClient[ev.c] # <<>>
    /\ ws[ev.c] = "OPEN"

\* The properties the protocol gives the envelopes of a type.
RequiredFields(type) ==
    CASE type = "session_state" -> {"user_id", "active_users", "objects"}
      [] type = "object_added" -> {"user_id", "object"}
      [] type = "object_updated" -> {"user_id", "object_id", "updates"}
      [] type = "object_deleted" -> {"user_id", "object_id"}
      [] type = "canvas_cleared" -> {"user_id"}
      [] type \in {"user_joined", "user_left"} -> {"active_users"}
      [] OTHER -> {}

\* The frame is not JSON, or its envelope lacks a property of its type.
Malformed(frame) ==
    \/ ~Parses(frame)
    \/ ~(RequiredFields(frame.type) \subseteq DOMAIN frame)

InSync(c) == isConnected[c] <=> (hasManager[c] /\ ws[c] = "OPEN")

\* C27: after a run of checkConnection the status shown is the state of the
\* transport, and it stays so in every step that leaves the transport as it
\* is.
PollReflectsTransport ==
    [][\A c \in Clients :
        /\ (ev'.op = "check" /\ ev'.c = c) => InSync(c)'
        /\ (InSync(c) /\ ws'[c] = ws[c] /\ hasManager'[c] = hasManager[c])
                => InSync(c)']_vars

\* checkConnection found the transport gone while the status shown was
\* connected.
PollReflectsTransportWitness ==
    /\ ev.op = "check"
    /\ ev.before = TRUE
    /\ ~isConnected[ev.c]
    /\ ws[ev.c] = "CLOSED"

\* The last step was the drop of the open transport of a manager that
\* disconnect() was not called on, with a close code that is retried after.
OpenDropped(c) ==
    /\ MgrDid("close")
    /\ ev.c = c
    /\ ~ev.msg.detached
    /\ ev.before.fields.readyState = "OPEN"
    /\ ev.msg.code \notin NonRetryable
    /\ ~disconnectCalled[c]

\* C31: after the drop of an open transport with a retryable code, whatever
\* the number n of reconnects executed before, one more is executed, unless
\* disconnect() is called first.
OpenResetsBudget ==
    \A c \in {"A"} : \A n \in 0..MaxFailures :
        (OpenDropped(c) /\ executed[c] = n)
            ~> (executed[c] > n \/ disconnectCalled[c])

\* An open transport dropped after the manager had executed as many
\* reconnects as the maximum of attempts in a row, and a reconnect is set.
OpenResetsBudgetWitness ==
    /\ OpenDropped("A")
    /\ executed["A"] >= maxReconnectAttempts
    /\ timer["A"] > 0

\* C32: a manager disconnect() was called on has no open transport: neither
\* the one it refers to nor one it created before.
NothingOpenAfterDisconnect ==
    \A c \in Clients :
        disconnectCalled[c] => (ws[c] # "OPEN" /\ detached[c].open = 0)

\* The ids of the objects of a store or of a list, in order.
Ids(objs) == [k \in DOMAIN objs |-> objs[k].id]

\* The objects of a list before its first object of a known kind without
\* attribute mapping, and the position of that object (0 when none).
FirstInvalid(list) ==
    LET bad == {k \in DOMAIN list :
                    list[k].type \in FabricKinds /\ "data" \notin DOMAIN list[k]}
    IN IF bad = {} THEN 0 ELSE Min(bad)
ValidPrefix(list) ==
    IF FirstInvalid(list) = 0 THEN list ELSE SubSeq(list, 1, FirstInvalid(list) - 1)

\* The objects of a list whose kind is one fabric has a class for.
OfKnownKind(list) == SelectSeq(list, LAMBDA o : o.type \in FabricKinds)

\* C35: the step that handles a session_state whose list holds an object
\* without attribute mapping leaves in the store the objects before that one
\* and nothing else, sets the ClientId and the ActiveUserSet to the
\* snapshot's, ends with the exception caught and leaves the transport open.
PartialSnapshot ==
    [][\A c \in Clients :
        (/\ Handling(c)
         /\ hasCanvas[c]
         /\ Parses(Head(toClient[c]))
         /\ Head(toClient[c]).type = "session_state"
         /\ FirstInvalid(ObjectsOf(Head(toClient[c]))) > 0)
            => LET data == Head(toClient[c]) IN
               /\ Ids(canvas'[c]) = Ids(OfKnownKind(ValidPrefix(data.objects)))
               /\ userId'[c] = data.user_id
               /\ activeUsers'[c] = data.active_users
               /\ ev'.op = "dropped"
               /\ ws'[c] = "OPEN"
               /\ UNCHANGED <<hasManager, reconnectAttempts, timer>>
               /\ toClient'[c] = Tail(toClient[c])]_vars

\* A snapshot with an object without attributes in second place was handled
\* by a client whose store held other objects: the store holds the first
\* object of the snapshot alone.
PartialSnapshotWitness ==
    /\ ev.op = "dropped"
    /\ Parses(ev.msg)
    /\ ev.msg.type = "session_state"
    /\ FirstInvalid(ev.msg.objects) = 2
    /\ Before # <<>>
    /\ Ids(Before) # Ids(After)
    /\ Len(After) = 1

\* C36: no store holds an object of a kind fabric has no class for; the step
\* that handles an object_added with such an object ends without exception
\* and leaves the store as it was, and a snapshot without invalid object
\* leaves in the store its objects of known kinds, all of them, without
\* exception.
UnknownKindNotStored ==
    [][\A c \in Clients :
        /\ \A k \in DOMAIN canvas'[c] : canvas'[c][k].type \in FabricKinds
        /\ (/\ Handling(c)
            /\ hasCanvas[c]
            /\ Parses(Head(toClient[c]))
            /\ Head(toClient[c]).type = "object_added"
            /\ "object" \in DOMAIN Head(toClient[c])
            /\ Head(toClient[c]).object.type \notin FabricKinds)
                => /\ canvas'[c] = canvas[c]
                   /\ ev'.op = "recv"
        /\ (/\ Handling(c)
            /\ hasCanvas[c]
            /\ Parses(Head(toClient[c]))
            /\ Head(toClient[c]).type = "session_state"
            /\ FirstInvalid(ObjectsOf(Head(toClient[c]))) = 0)
                => /\ Ids(canvas'[c]) = Ids(OfKnownKind(ObjectsOf(Head(toClient[c]))))
                   /\ ev'.op = "recv"]_vars

\* A snapshot that lists an object of an unknown kind before a rectangle was
\* handled: the store holds the rectangle alone.
UnknownKindNotStoredWitness ==
    /\ Handled("session_state")
    /\ \E k \in DOMAIN ev.msg.objects : ev.msg.objects[k].type \notin FabricKinds
    /\ Len(After) = 1
    /\ Len(ev.msg.objects) = 2

\* C33: once the cleanup of a component has run, its session has no manager
\* in wsManagerRef and no transport that is connecting or open.
NothingLeftBehind ==
    \A c \in Clients :
        phase[c] = "left" => (~hasManager[c] /\ Live(c) = 0)

\* C34: the step that handles a frame on a client without canvas leaves the
\* store, the ClientId, the ActiveUserSet and the connectivity flag as they
\* were.
NoSurfaceNoEffect ==
    [][\A c \in Clients :
        (Handling(c) /\ ~hasCanvas[c])
            => UNCHANGED <<canvas, userId, activeUsers, isConnected>>]_vars

\* A session_state arrived at a client without canvas.
NoSurfaceNoEffectWitness ==
    /\ ev.op = "ignored"
    /\ ev.msg.type = "session_state"
    /\ ~hasCanvas[ev.c]
    /\ ~isConnected[ev.c]
    /\ userId[ev.c] = NoUser

====
